---- MODULE Spec2Model ----
(***************************************************************************)
(* stocky_to_coast.py: conversion of a Stocky purchase-order export into a *)
(* vendor cart CSV.  One run of main() is a sequence of steps (read, map,  *)
(* load config, validate, quarantine, transform, write, variance, lineage, *)
(* summary); every step either moves on or raises, and main's two except   *)
(* clauses turn the exception into exit code 1 or 2.                       *)
(*                                                                         *)
(* Conventions of the model                                                *)
(*  - money is an integer number of mills (1/1000 of the currency unit);   *)
(*    0.01 is 10 mills.  The amounts drawn below are ones on which the     *)
(*    binary64 evaluation of the program agrees with exact arithmetic.     *)
(*  - a text is a sequence of one-character strings; "zw" stands for the   *)
(*    zero-width space U+200B.                                             *)
(*  - a mapping with optional keys (a YAML document, a dict) is a function *)
(*    whose DOMAIN is the set of keys present.                             *)
(*  - None is the string "None".                                           *)
(***************************************************************************)
EXTENDS Integers, Sequences, FiniteSets, TLC

(***************************************************************************)
(* Bounds of the model                                                     *)
(***************************************************************************)
\* most data rows in one input file
MaxRows == 2
\* most invocations of main() against one run directory (SpecRerun)
MaxRuns == 2

(***************************************************************************)
(* Canonical columns and defaults (stocky_to_coast.py:23-54)               *)
(***************************************************************************)
IN_COLS == <<"SKU", "Qty Ordered", "Cost (base)", "Total Cost (base)">>

OUT_COLS == <<"Item Id", "Qty Ordered", "Unit Price", "Extended Price">>

STOCKY_ALIASES ==
  [c \in {IN_COLS[i] : i \in 1..4} |->
     CASE c = "SKU" -> <<"SKU", "Sku", "Item Id", "ItemID">>
       [] c = "Qty Ordered" -> <<"Qty Ordered", "Quantity Ordered", "Qty">>
       [] c = "Cost (base)" -> <<"Cost (base)", "Unit Cost (base)", "Unit Cost", "Cost">>
       [] c = "Total Cost (base)" -> <<"Total Cost (base)", "Extended Price", "Total">>]

\* the value of the module global DEFAULT_VENDOR_CFG when the process starts
BakedInDefaults ==
  [name |-> "default",
   output |-> [columns |-> <<"Item Id", "Qty Ordered", "Unit Price", "Extended Price">>,
               delimiter |-> ",",
               decimal_places |-> 2,
               quoting |-> "all"],
   input |-> <<>>]

QUOTING_MAP ==
  [q \in {"all", "minimal", "nonnumeric", "none"} |->
     CASE q = "all" -> "QUOTE_ALL"
       [] q = "minimal" -> "QUOTE_MINIMAL"
       [] q = "nonnumeric" -> "QUOTE_NONNUMERIC"
       [] q = "none" -> "QUOTE_NONE"]

\* Field(ge=0, le=6) of OutputCfg.decimal_places
DecimalPlacesMin == 0
DecimalPlacesMax == 6

\* the tolerance of the cross-field rule, 0.01, in mills
Tolerance == 10

\* threshold=0.20 of variance_flags, in percent
VarianceThresholdPct == 20

None == "None"

(***************************************************************************)
(* Generic helpers                                                         *)
(***************************************************************************)
Range(s) == {s[i] : i \in DOMAIN s}

Abs(x) == IF x < 0 THEN -x ELSE x

RECURSIVE Pow10(_)
Pow10(n) == IF n = 0 THEN 1 ELSE 10 * Pow10(n - 1)

RECURSIVE SeqsUpTo(_, _)
\* all sequences over S of length at most n
SeqsUpTo(S, n) ==
  IF n = 0 THEN {<<>>}
  ELSE LET shorter == SeqsUpTo(S, n - 1)
       IN shorter \cup {Append(s, x) : s \in {t \in shorter : Len(t) = n - 1}, x \in S}

RECURSIVE SumSeq(_)
\* sum of the integers of the sequence s (Series.sum())
SumSeq(s) == IF s = <<>> THEN 0 ELSE Head(s) + SumSeq(Tail(s))

(***************************************************************************)
(* Text: str.lower(), str.replace(U+200B, ""), str.strip(), ordering       *)
(***************************************************************************)
\* str.lower() on the column names that occur in the model
Lower(c) ==
  CASE c = "SKU" -> "sku"
    [] c = "Sku" -> "sku"
    [] c = "Item Id" -> "item id"
    [] c = "ItemID" -> "itemid"
    [] c = "Qty Ordered" -> "qty ordered"
    [] c = "Quantity Ordered" -> "quantity ordered"
    [] c = "Qty" -> "qty"
    [] c = "QTY" -> "qty"
    [] c = "Cost (base)" -> "cost (base)"
    [] c = "Unit Cost (base)" -> "unit cost (base)"
    [] c = "Unit Cost" -> "unit cost"
    [] c = "Cost" -> "cost"
    [] c = "Total Cost (base)" -> "total cost (base)"
    [] c = "Extended Price" -> "extended price"
    [] c = "Total" -> "total"
    [] c = "Amount" -> "amount"
    [] OTHER -> c

RECURSIVE RemoveZeroWidth(_)
RemoveZeroWidth(s) ==
  IF s = <<>> THEN <<>>
  ELSE IF Head(s) = "zw" THEN RemoveZeroWidth(Tail(s))
       ELSE <<Head(s)>> \o RemoveZeroWidth(Tail(s))

RECURSIVE LStrip(_)
LStrip(s) == IF s # <<>> /\ Head(s) = " " THEN LStrip(Tail(s)) ELSE s

RECURSIVE RStrip(_)
RStrip(s) == IF s # <<>> /\ s[Len(s)] = " " THEN RStrip(SubSeq(s, 1, Len(s) - 1)) ELSE s

Strip(s) == RStrip(LStrip(s))

\* .str.replace(U+200B, "", regex=False).str.strip()
CleanSku(s) == Strip(RemoveZeroWidth(s))

\* code point order of the characters that occur in the model
CodePoint(ch) ==
  CASE ch = " " -> 32
    [] ch = "1" -> 49
    [] ch = "2" -> 50
    [] ch = "A" -> 65
    [] ch = "B" -> 66
    [] ch = "a" -> 97
    [] ch = "zw" -> 8203

RECURSIVE TextLess(_, _)
\* s < t for Python strings
TextLess(s, t) ==
  IF t = <<>> THEN FALSE
  ELSE IF s = <<>> THEN TRUE
  ELSE IF Head(s) # Head(t) THEN CodePoint(Head(s)) < CodePoint(Head(t))
  ELSE TextLess(Tail(s), Tail(t))

RECURSIVE SortedTexts(_)
\* the texts of the finite set S in ascending order (groupby sorts its keys)
SortedTexts(S) ==
  IF S = {} THEN <<>>
  ELSE LET least == CHOOSE s \in S : \A t \in S \ {s} : TextLess(s, t)
       IN <<least>> \o SortedTexts(S \ {least})

(***************************************************************************)
(* Input files: a header of column names and rows of cells.  A cell holds  *)
(* its text and, when pandas parses it as a number, that number.           *)
(***************************************************************************)
TextCell(s) == [num |-> FALSE, v |-> 0, s |-> s]

NumCell(v) == [num |-> TRUE, v |-> v, s |-> <<>>]

\* a data row: the cells under the first four header columns, in order
InputRow(sku, qty, cost, total) == <<TextCell(sku), qty, NumCell(cost), NumCell(total)>>

\* the cell every row holds under a fifth header column
ExtraCell == NumCell(7000)

RowPool ==
  { InputRow(<<"A", "1">>, NumCell(1), 10000, 9980),            \* A1,1,10.00,9.98
    InputRow(<<"B", "2">>, NumCell(2), 5000, 10000),            \* B2,2,5.00,10.00
    InputRow(<<" ", "A", "1", "zw">>, NumCell(1), 10000, 9990), \* " A1<zw>",1,10.00,9.99
    InputRow(<<"a", "1">>, TextCell(<<"a">>), 10000, 10000),    \* a1,a,10.00,10.00
    InputRow(<<"B", "2">>, NumCell(-1), 5000, 0) }              \* B2,-1,5.00,0.00

Headers ==
  { <<"SKU", "Qty Ordered", "Cost (base)", "Total Cost (base)">>,
    <<"Item Id", "Qty", "Unit Cost", "Total">>,
    <<"sku", "Qty Ordered", "Cost (base)", "Total Cost (base)">>,
    <<"SKU", "QTY", "Cost", "Extended Price">>,
    <<"SKU", "Qty Ordered", "Cost (base)", "Amount">>,
    <<"SKU", "Qty", "Cost", "Total", "Unit Cost">> }

\* the file as pd.read_csv sees it: every row as wide as the header
InputFile(header, rows) ==
  [columns |-> header,
   rows |-> [i \in DOMAIN rows |->
               IF Len(header) > 4 THEN Append(rows[i], ExtraCell) ELSE rows[i]]]

InputFiles == {InputFile(h, r) : h \in Headers, r \in SeqsUpTo(RowPool, MaxRows)}

(***************************************************************************)
(* Vendor configuration (stocky_to_coast.py:60-112)                        *)
(***************************************************************************)
\* the YAML documents a run may be given; <<>> is the run without
\* --vendor and without --vendor-config (data = {})
VendorFiles ==
  { <<>>,
    [name |-> "test_vendor",
     output |-> [columns |-> <<"Item Id", "Qty Ordered", "Unit Price", "Extended Price">>,
                 delimiter |-> ",", decimal_places |-> 3, quoting |-> "all"]],
    [output |-> [columns |-> <<"Qty Ordered", "Item Id", "Extended Price", "Unit Price">>,
                 delimiter |-> ";"],
     input |-> [sku_pattern |-> "^B"]],
    [output |-> [columns |-> <<"Item Id", "Item Id", "Qty Ordered", "Unit Price",
                               "Extended Price">>]],
    [output |-> [columns |-> <<"Item Id", "Qty Ordered", "Qty Ordered", "Unit Price",
                               "Extended Price">>]],
    [output |-> [columns |-> <<"Item Id", "Qty Ordered", "Unit Price">>]],
    [output |-> [decimal_places |-> 7]] }

\* the keys whose values are dicts (isinstance(v, dict))
IsDict(k) == k \in {"output", "input"}

RECURSIVE _deep_update(_, _)
\* the merged mapping that dst becomes
_deep_update(dst, src) ==
  [k \in DOMAIN dst \cup DOMAIN src |->
     IF k \notin DOMAIN src THEN dst[k]
     ELSE IF IsDict(k) /\ k \in DOMAIN dst THEN _deep_update(dst[k], src[k])
     ELSE src[k]]

\* the value load_vendor_cfg returns, given the module global and the YAML data
load_vendor_cfg(defaults, data) == _deep_update(defaults, data)

\* the module global after load_vendor_cfg: cfg is a shallow copy, so the
\* nested dicts of the global are the ones _deep_update mutates
DefaultsAfterLoad(defaults, data) ==
  [k \in DOMAIN defaults |->
     IF k \in DOMAIN data /\ IsDict(k) THEN _deep_update(defaults[k], data[k])
     ELSE defaults[k]]

\* VendorCfg.model_validate: the field constraints of the pydantic models
ModelValid(raw) ==
  /\ {"name", "output"} \subseteq DOMAIN raw
  /\ "columns" \in DOMAIN raw.output
  /\ raw.output.decimal_places \in DecimalPlacesMin..DecimalPlacesMax
  /\ raw.output.quoting \in DOMAIN QUOTING_MAP

\* validate_vendor_cfg returns (TRUE) or raises ValueError (FALSE)
validate_vendor_cfg(raw) ==
  /\ ModelValid(raw)
  /\ Range(raw.output.columns) = Range(OUT_COLS)

\* vcfg.input.sku_pattern, None when absent
CfgSkuPattern(raw) ==
  IF "input" \in DOMAIN raw /\ "sku_pattern" \in DOMAIN raw.input
  THEN raw.input.sku_pattern ELSE None

(***************************************************************************)
(* map_to_required (stocky_to_coast.py:115-142)                            *)
(***************************************************************************)
\* lower_map.get(l): the last column whose lower-case form is l, else None
LowerMapGet(columns, l) ==
  LET hits == {i \in DOMAIN columns : Lower(columns[i]) = l}
  IN IF hits = {} THEN None
     ELSE columns[CHOOSE i \in hits : \A j \in hits : j <= i]

RECURSIVE FirstAlias(_, _)
\* the inner loop over the aliases of one canonical field: the real column
FirstAlias(columns, aliases) ==
  IF aliases = <<>> THEN None
  ELSE IF Head(aliases) \in Range(columns) THEN Head(aliases)
  ELSE IF LowerMapGet(columns, Lower(Head(aliases))) # None
       THEN LowerMapGet(columns, Lower(Head(aliases)))
  ELSE FirstAlias(columns, Tail(aliases))

\* cols[canonical] = df[real]: the position of the real column
ColumnOf(columns, canonical) ==
  LET real == FirstAlias(columns, STOCKY_ALIASES[canonical])
  IN IF real = None THEN 0 ELSE CHOOSE i \in DOMAIN columns : columns[i] = real

\* pd.to_numeric(errors="raise") succeeds on the column at position j
Numeric(df, j) == \A i \in DOMAIN df.rows : df.rows[i][j].num

\* the exception map_to_required raises on df, "" when it returns
MapException(df) ==
  IF \E i \in 1..4 : ColumnOf(df.columns, IN_COLS[i]) = 0 THEN "KeyError"
  ELSE IF \E i \in 2..4 : ~Numeric(df, ColumnOf(df.columns, IN_COLS[i])) THEN "ValueError"
  ELSE ""

\* the frame map_to_required returns; idx is the row label of the input frame
map_to_required(df) ==
  [i \in DOMAIN df.rows |->
     [idx |-> i - 1,
      sku |-> CleanSku(df.rows[i][ColumnOf(df.columns, "SKU")].s),
      qty |-> df.rows[i][ColumnOf(df.columns, "Qty Ordered")].v,
      cost |-> df.rows[i][ColumnOf(df.columns, "Cost (base)")].v,
      total |-> df.rows[i][ColumnOf(df.columns, "Total Cost (base)")].v]]

(***************************************************************************)
(* schema (stocky_to_coast.py:157-193)                                     *)
(***************************************************************************)
\* re.match(pattern, sku) for the patterns that occur in the model
str_matches(pattern, sku) ==
  CASE pattern = "^B" -> sku # <<>> /\ Head(sku) = "B"
    [] pattern = "^A" -> sku # <<>> /\ Head(sku) = "A"

\* the cross-field rule with a strict comparison
TotalsMatch_Strict(r) == Abs(r.qty * r.cost - r.total) < Tolerance

\* the dataframe-level check, row by row: |Qty*Cost - Total| <= 0.01
TotalsMatch(r) == Abs(r.qty * r.cost - r.total) <= Tolerance

\* the column checks of one row
ColumnChecks(r, sku_pattern) ==
  /\ sku_pattern # None => str_matches(sku_pattern, r.sku)
  /\ r.qty >= 0
  /\ r.cost >= 0
  /\ r.total >= 0

\* schema whose dataframe-level check is never appended
schema_NoBusinessRule(include_business, sku_pattern, df) ==
  \A i \in DOMAIN df : ColumnChecks(df[i], sku_pattern)

\* schema(include_business, sku_pattern).validate(df) returns (TRUE) or
\* raises SchemaError (FALSE)
schema(include_business, sku_pattern, df) ==
  /\ \A i \in DOMAIN df : ColumnChecks(df[i], sku_pattern)
  /\ include_business => \A i \in DOMAIN df : TotalsMatch(df[i])

(***************************************************************************)
(* dedupe_and_normalize, to_coast (stocky_to_coast.py:196-217)             *)
(***************************************************************************)
\* Series.round(2) of a non-negative amount in mills (ties to even)
Round2(m) ==
  LET r == m % 10
      base == m - r
  IN IF r < 5 THEN base
     ELSE IF r > 5 THEN base + 10
     ELSE IF (base \div 10) % 2 = 0 THEN base ELSE base + 10

\* the rows of df whose SKU is sku, in frame order
Group(df, sku) == SelectSeq(df, LAMBDA r : r.sku = sku)

RECURSIVE SumQty(_)
SumQty(rows) == IF rows = <<>> THEN 0 ELSE Head(rows).qty + SumQty(Tail(rows))

\* dedupe that keeps the first quantity of a group, like its cost
dedupe_and_normalize_FirstQty(df) ==
  LET keys == SortedTexts({df[i].sku : i \in DOMAIN df})
  IN [k \in DOMAIN keys |->
        LET g == Group(df, keys[k])
        IN [sku |-> keys[k],
            qty |-> g[1].qty,
            cost |-> Round2(g[1].cost),
            total |-> Round2(Round2(g[1].qty * g[1].cost))]]

dedupe_and_normalize(df) ==
  LET keys == SortedTexts({df[i].sku : i \in DOMAIN df})
  IN [k \in DOMAIN keys |->
        LET g == Group(df, keys[k])
            qty == SumQty(g)
            cost == g[1].cost
        IN [sku |-> keys[k],
            qty |-> qty,
            cost |-> Round2(cost),
            total |-> Round2(Round2(qty * cost))]]

\* one row of the cart frame, keyed by output column
CoastRow(r) ==
  [c \in Range(OUT_COLS) |->
     CASE c = "Item Id" -> [text |-> r.sku, n |-> 0]
       [] c = "Qty Ordered" -> [text |-> <<>>, n |-> r.qty]
       [] c = "Unit Price" -> [text |-> <<>>, n |-> Round2(r.cost)]
       [] c = "Extended Price" -> [text |-> <<>>, n |-> Round2(r.qty * r.cost)]]

to_coast(df) == [columns |-> OUT_COLS, rows |-> [i \in DOMAIN df |-> CoastRow(df[i])]]

\* out[out_cols]: reorder/select the columns of a frame
SelectColumns(frame, out_cols) == [columns |-> out_cols, rows |-> frame.rows]

(***************************************************************************)
(* CSV serialisation and hash_output (stocky_to_coast.py:220-222, 319-326) *)
(***************************************************************************)
\* m mills rounded to a multiple of unit mills, ties to even
RoundToUnit(m, unit) ==
  LET r == m % unit
      base == m - r
  IN IF 2 * r < unit THEN base
     ELSE IF 2 * r > unit THEN base + unit
     ELSE IF (base \div unit) % 2 = 0 THEN base ELSE base + unit

\* "%.<dp>f" of an amount: the digits before and after the decimal point
FixedDecimal(m, dp) ==
  LET scaled == IF dp >= 3 THEN m * Pow10(dp - 3)
                ELSE RoundToUnit(m, Pow10(3 - dp)) \div Pow10(3 - dp)
  IN [whole |-> scaled \div Pow10(dp), frac |-> scaled % Pow10(dp), places |-> dp]

\* one written field: the SKU text, the integer quantity, or a price
CsvField(col, value, dp) ==
  CASE col = "Item Id" -> [text |-> value.text, whole |-> 0, frac |-> 0, places |-> 0]
    [] col = "Qty Ordered" -> [text |-> <<>>, whole |-> value.n, frac |-> 0, places |-> 0]
    [] OTHER -> [text |-> <<>>] @@ FixedDecimal(value.n, dp)

\* DataFrame.to_csv(index=False, sep, quoting, float_format): the file's text
to_csv(frame, sep, quoting, dp) ==
  [sep |-> sep,
   quoting |-> quoting,
   header |-> frame.columns,
   lines |-> [i \in DOMAIN frame.rows |->
                [j \in DOMAIN frame.columns |->
                   CsvField(frame.columns[j], frame.rows[i][frame.columns[j]], dp)]]]

\* df.to_csv(index=False) with pandas' defaults: the values as they are
DefaultCsv(frame) ==
  [header |-> frame.columns,
   lines |-> [i \in DOMAIN frame.rows |->
                [j \in DOMAIN frame.columns |-> frame.rows[i][frame.columns[j]]]]]

\* md5(payload).hexdigest()[:8], as a function of the hashed payload
Digest(payload) == payload

hash_output(df, vendor_name) == Digest([vendor |-> vendor_name, csv |-> DefaultCsv(df)])

(***************************************************************************)
(* variance_flags (stocky_to_coast.py:225-236)                             *)
(***************************************************************************)
\* what --price-history may name.  arg: the option is given; exists: the
\* file is there; rows: its SKU and LastCost cells
PriceHistories ==
  { [arg |-> FALSE, exists |-> FALSE, columns |-> {}, rows |-> <<>>],
    [arg |-> TRUE, exists |-> FALSE, columns |-> {}, rows |-> <<>>],
    [arg |-> TRUE, exists |-> TRUE, columns |-> {"SKU", "LastCost"},
     rows |-> << [sku |-> TextCell(<<"A", "1">>), last |-> NumCell(8000)],
                 [sku |-> TextCell(<<"B", "2">>), last |-> NumCell(5000)] >>],
    [arg |-> TRUE, exists |-> TRUE, columns |-> {"SKU", "LastCost"},
     rows |-> << [sku |-> NumCell(12), last |-> NumCell(5000)] >>],
    [arg |-> TRUE, exists |-> TRUE, columns |-> {"SKU", "LastCost"},
     rows |-> << [sku |-> TextCell(<<"B", "2">>), last |-> TextCell(<<"a">>)] >>] }

\* the dtype pandas infers for a column of the history: numeric only when
\* every cell is a number (an empty column is object)
InferredNumeric(hist, col) ==
  /\ hist.rows # <<>>
  /\ \A i \in DOMAIN hist.rows : hist.rows[i][col].num

\* the exception variance_flags raises, "" when it returns: comparing a
\* text LastCost with 0 is a TypeError, merging the string SKU key with a
\* numeric one a ValueError
VarianceException(hist) ==
  IF ~hist.exists \/ ~({"SKU", "LastCost"} \subseteq hist.columns) THEN ""
  ELSE IF hist.rows # <<>> /\ ~InferredNumeric(hist, "last") THEN "TypeError"
  ELSE IF InferredNumeric(hist, "sku") THEN "ValueError"
  ELSE ""

\* the SKUs variance_flags returns: |cost - last| / last > threshold
variance_flags(df, hist) ==
  IF ~hist.exists \/ ~({"SKU", "LastCost"} \subseteq hist.columns) THEN {}
  ELSE { df[i].sku : i \in
           { i \in DOMAIN df :
               \E h \in DOMAIN hist.rows :
                 /\ hist.rows[h].sku.s = df[i].sku
                 /\ hist.rows[h].last.v > 0
                 /\ Abs(df[i].cost - hist.rows[h].last.v) * 100
                      > VarianceThresholdPct * hist.rows[h].last.v } }

(***************************************************************************)
(* The state of main() and of the run directory <outdir>/<po>              *)
(***************************************************************************)
VARIABLES
  args,                \* the parsed command line: soft_validate, sku_pattern
  input,               \* the file --input names
  vendor_file,         \* the YAML data of --vendor / --vendor-config
  price_history,       \* what --price-history names
  clock,               \* UTC time in minutes
  pc,                  \* the step main() is at
  DEFAULT_VENDOR_CFG,  \* the module global of this process
  df_in,               \* locals of main()
  df_req,
  lineage_source,
  vcfg,
  sku_pattern,
  validated,
  rows_quarantined,
  df_t,
  out,
  out_path,
  flags,
  fs,                  \* the files of the run directory
  wrote,               \* the artifacts this run has written
  raised,              \* the exception that ended the run and the step that raised it
  exit_code,           \* -1 while main() runs
  stderr,
  stdout,
  history              \* the finished earlier runs against this directory

vars ==
  <<args, input, vendor_file, price_history, clock, pc, DEFAULT_VENDOR_CFG, df_in,
    df_req, lineage_source, vcfg, sku_pattern, validated, rows_quarantined, df_t, out,
    out_path, flags, fs, wrote, raised, exit_code, stderr, stdout, history>>

env == <<args, input, vendor_file, price_history, clock, history>>

locals ==
  <<df_in, df_req, lineage_source, vcfg, sku_pattern, validated, rows_quarantined,
    df_t, out, out_path, flags>>

\* a fixed-name file is <<>> while absent and <<content>> once written
EmptyDir ==
  [quarantine_csv |-> <<>>, lineage_json |-> <<>>, summary_json |-> <<>>,
   summary_md |-> <<>>, output_csv |-> {}]

NoPath == [ts |-> -1, hash |-> <<>>]

\* the state of a process entering the try block of main()
ProcessStart ==
  /\ pc = "read"
  /\ DEFAULT_VENDOR_CFG = BakedInDefaults
  /\ df_in = <<>>
  /\ df_req = <<>>
  /\ lineage_source = <<>>
  /\ vcfg = <<>>
  /\ sku_pattern = None
  /\ validated = <<>>
  /\ rows_quarantined = 0
  /\ df_t = <<>>
  /\ out = <<>>
  /\ out_path = NoPath
  /\ flags = {}
  /\ wrote = {}
  /\ raised = [exc |-> "", at |-> ""]
  /\ exit_code = -1
  /\ stderr = ""
  /\ stdout = <<>>

ArgSets == [soft_validate : BOOLEAN, sku_pattern : {"", "^A"}]

Init ==
  /\ args \in ArgSets
  /\ input \in InputFiles
  /\ vendor_file \in VendorFiles
  /\ price_history \in PriceHistories
  /\ clock = 0
  /\ history = <<>>
  /\ fs = EmptyDir
  /\ ProcessStart

(***************************************************************************)
(* The except clauses of main() (stocky_to_coast.py:379-387)               *)
(***************************************************************************)
ExitCodeOf(exc) == IF exc \in {"SchemaError", "KeyError", "ValueError"} THEN 1 ELSE 2

Raise(exc) ==
  /\ raised' = [exc |-> exc, at |-> pc]
  /\ exit_code' = ExitCodeOf(exc)
  /\ stderr' = IF ExitCodeOf(exc) = 1 THEN "VALIDATION ERROR" ELSE "ERROR"
  /\ pc' = "exit"
  /\ UNCHANGED stdout

Continue(next) ==
  /\ pc' = next
  /\ UNCHANGED <<raised, exit_code, stderr, stdout>>

(***************************************************************************)
(* The steps of main() (stocky_to_coast.py:265-377)                        *)
(***************************************************************************)
\* lines 267-269: read the CSV, then clean df_in["SKU"]
ReadInput ==
  /\ pc = "read"
  /\ IF "SKU" \in Range(input.columns)
     THEN /\ df_in' =
               LET j == CHOOSE j \in DOMAIN input.columns : input.columns[j] = "SKU"
               IN [input EXCEPT !.rows =
                     [i \in DOMAIN input.rows |->
                        [input.rows[i] EXCEPT ![j].s = CleanSku(@)]]]
          /\ Continue("map")
     ELSE /\ Raise("KeyError")
          /\ UNCHANGED df_in
  /\ UNCHANGED <<env, DEFAULT_VENDOR_CFG, df_req, lineage_source, vcfg, sku_pattern,
                 validated, rows_quarantined, df_t, out, out_path, flags, fs, wrote>>

\* lines 272-275: map_to_required and the lineage copy
MapToRequired ==
  /\ pc = "map"
  /\ IF MapException(df_in) = ""
     THEN /\ df_req' = map_to_required(df_in)
          /\ lineage_source' = map_to_required(df_in)
          /\ Continue("config")
     ELSE /\ Raise(MapException(df_in))
          /\ UNCHANGED <<df_req, lineage_source>>
  /\ UNCHANGED <<env, DEFAULT_VENDOR_CFG, df_in, vcfg, sku_pattern, validated,
                 rows_quarantined, df_t, out, out_path, flags, fs, wrote>>

\* lines 278-282: load and validate the vendor config, choose the SKU pattern
LoadVendorCfg ==
  /\ pc = "config"
  /\ DEFAULT_VENDOR_CFG' = DefaultsAfterLoad(DEFAULT_VENDOR_CFG, vendor_file)
  /\ LET raw_cfg == load_vendor_cfg(DEFAULT_VENDOR_CFG, vendor_file)
     IN IF validate_vendor_cfg(raw_cfg)
        THEN /\ vcfg' = raw_cfg
             /\ sku_pattern' = IF args.sku_pattern # "" THEN args.sku_pattern
                               ELSE CfgSkuPattern(raw_cfg)
             /\ Continue("validate")
        ELSE /\ Raise("ValueError")
             /\ UNCHANGED <<vcfg, sku_pattern>>
  /\ UNCHANGED <<env, df_in, df_req, lineage_source, validated, rows_quarantined,
                 df_t, out, out_path, flags, fs, wrote>>

\* line 285: schema validation; the business rule only in strict mode
ValidateSchema ==
  /\ pc = "validate"
  /\ IF schema(~args.soft_validate, sku_pattern, df_req)
     THEN /\ validated' = df_req
          /\ Continue("quarantine")
     ELSE /\ Raise("SchemaError")
          /\ UNCHANGED validated
  /\ UNCHANGED <<env, DEFAULT_VENDOR_CFG, df_in, df_req, lineage_source, vcfg,
                 sku_pattern, rows_quarantined, df_t, out, out_path, flags, fs, wrote>>

\* lines 288-297: in soft mode move the rows that break the business rule to
\* quarantine.csv; io_ok is whether the file can be written
Quarantine ==
  /\ pc = "quarantine"
  /\ \E io_ok \in BOOLEAN :
       LET bad == SelectSeq(validated, LAMBDA r : ~TotalsMatch(r))
       IN IF ~args.soft_validate
          THEN /\ io_ok
               /\ Continue("transform")
               /\ UNCHANGED <<rows_quarantined, validated, fs, wrote>>
          ELSE IF Len(bad) = 0
          THEN /\ io_ok
               /\ Continue("transform")
               /\ UNCHANGED <<rows_quarantined, validated, fs, wrote>>
          ELSE IF io_ok
          THEN /\ rows_quarantined' = Len(bad)
               /\ fs' = [fs EXCEPT !.quarantine_csv = <<bad>>]
               /\ wrote' = wrote \cup {"quarantine.csv"}
               /\ validated' = SelectSeq(validated, TotalsMatch)
               /\ Continue("transform")
          ELSE /\ rows_quarantined' = Len(bad)
               /\ Raise("OSError")
               /\ UNCHANGED <<validated, fs, wrote>>
  /\ UNCHANGED <<env, DEFAULT_VENDOR_CFG, df_in, df_req, lineage_source, vcfg,
                 sku_pattern, df_t, out, out_path, flags>>

\* lines 300-311: dedupe, build the cart frame, apply the vendor column order
Transform ==
  /\ pc = "transform"
  /\ df_t' = dedupe_and_normalize(validated)
  /\ out' = SelectColumns(to_coast(dedupe_and_normalize(validated)), vcfg.output.columns)
  /\ Continue("write")
  /\ UNCHANGED <<env, DEFAULT_VENDOR_CFG, df_in, df_req, lineage_source, vcfg,
                 sku_pattern, validated, rows_quarantined, out_path, flags, fs, wrote>>

\* the run directory after a file is written at path, replacing what was there
WriteCsv(dir, path, content) ==
  [dir EXCEPT !.output_csv =
     {f \in @ : f.path # path} \cup {[path |-> path, content |-> content]}]

\* a name whose digest also covers the time of the run
OutPath_HashCoversTime(frame, vendor_name, now) ==
  [ts |-> now,
   hash |-> Digest([vendor |-> vendor_name, csv |-> DefaultCsv(frame), ts |-> now])]

\* the name of the output CSV: new_coast_cart_<po>_<ts>_<hh>.csv
OutPath(frame, vendor_name, now) == [ts |-> now, hash |-> hash_output(frame, vendor_name)]

\* lines 314-326: name the output CSV and write it
WriteOutput ==
  /\ pc = "write"
  /\ out_path' = OutPath(out, vcfg.name, clock)
  /\ \E io_ok \in BOOLEAN :
       IF io_ok
       THEN /\ fs' = WriteCsv(fs, OutPath(out, vcfg.name, clock),
                              to_csv(out, vcfg.output.delimiter,
                                     QUOTING_MAP[vcfg.output.quoting],
                                     vcfg.output.decimal_places))
            /\ wrote' = wrote \cup {"output.csv"}
            /\ Continue("variance")
       ELSE /\ Raise("OSError")
            /\ UNCHANGED <<fs, wrote>>
  /\ UNCHANGED <<env, DEFAULT_VENDOR_CFG, df_in, df_req, lineage_source, vcfg,
                 sku_pattern, validated, rows_quarantined, df_t, out, flags>>

\* lines 329-331: the optional variance flags
VarianceFlags ==
  /\ pc = "variance"
  /\ IF ~price_history.arg
     THEN /\ Continue("lineage")
          /\ UNCHANGED flags
     ELSE IF VarianceException(price_history) = ""
     THEN /\ flags' = variance_flags(df_t, price_history)
          /\ Continue("lineage")
     ELSE /\ Raise(VarianceException(price_history))
          /\ UNCHANGED flags
  /\ UNCHANGED <<env, DEFAULT_VENDOR_CFG, df_in, df_req, lineage_source, vcfg,
                 sku_pattern, validated, rows_quarantined, df_t, out, out_path, fs, wrote>>

\* lineage built from every mapped row, valid or not
LineageRecords_AllRows(frame, valid_idx) ==
  LET keys == SortedTexts({frame[i].sku : i \in DOMAIN frame})
  IN [k \in DOMAIN keys |->
        LET g == Group(frame, keys[k])
        IN [sku |-> keys[k], row_ids |-> [i \in DOMAIN g |-> g[i].idx]]]

\* the records of lineage.json: one per SKU of frame, with the row ids in order
LineageRecords(frame, valid_idx) ==
  LET lineage_valid == SelectSeq(frame, LAMBDA r : r.idx \in valid_idx)
      keys == SortedTexts({lineage_valid[i].sku : i \in DOMAIN lineage_valid})
  IN [k \in DOMAIN keys |->
        LET g == Group(lineage_valid, keys[k])
        IN [sku |-> keys[k], row_ids |-> [i \in DOMAIN g |-> g[i].idx]]]

\* lines 335-343: the lineage artifact
WriteLineage ==
  /\ pc = "lineage"
  /\ \E io_ok \in BOOLEAN :
       IF io_ok
       THEN /\ fs' = [fs EXCEPT !.lineage_json =
                        <<LineageRecords(lineage_source,
                                         {validated[i].idx : i \in DOMAIN validated})>>]
            /\ wrote' = wrote \cup {"lineage.json"}
            /\ Continue("summary_json")
       ELSE /\ Raise("OSError")
            /\ UNCHANGED <<fs, wrote>>
  /\ UNCHANGED <<env, DEFAULT_VENDOR_CFG, locals>>

\* the number of columns of frame that are named col
ColumnCount(frame, col) == Cardinality({j \in DOMAIN frame.columns : frame.columns[j] = col})

\* int(out[col].sum()): out[col] is a Series only if one column bears the name
ColumnSum(frame, col) == SumSeq([i \in DOMAIN frame.rows |-> frame.rows[i][col].n])

\* lines 346-361: the summary dict
Summary ==
  [vendor |-> vcfg.name,
   mode |-> IF args.soft_validate THEN "soft-validate" ELSE "strict",
   sku_pattern |-> sku_pattern,
   output_file |-> out_path,
   rows_in |-> Len(df_in.rows),
   rows_validated |-> Len(validated) + rows_quarantined,
   rows_quarantined |-> rows_quarantined,
   rows_out |-> Len(out.rows),
   total_qty |-> ColumnSum(out, "Qty Ordered"),
   total_extended_price |-> ColumnSum(out, "Extended Price"),
   variance_flags |-> flags,
   status |-> "OK"]

\* lines 346-363: build the summary and write summary.json
WriteSummaryJson ==
  /\ pc = "summary_json"
  /\ \E io_ok \in BOOLEAN :
       IF ColumnCount(out, "Qty Ordered") > 1 \/ ColumnCount(out, "Extended Price") > 1
       THEN /\ io_ok
            /\ Raise("TypeError")
            /\ UNCHANGED <<fs, wrote>>
       ELSE IF io_ok
       THEN /\ fs' = [fs EXCEPT !.summary_json = <<Summary>>]
            /\ wrote' = wrote \cup {"summary.json"}
            /\ Continue("summary_md")
       ELSE /\ Raise("OSError")
            /\ UNCHANGED <<fs, wrote>>
  /\ UNCHANGED <<env, DEFAULT_VENDOR_CFG, locals>>

\* the lines of summary.md
SummaryMd ==
  [vendor |-> Summary.vendor, mode |-> Summary.mode, output |-> out_path,
   rows_in |-> Len(df_in.rows), rows_out |-> Len(out.rows),
   quarantined |-> rows_quarantined, total_qty |-> Summary.total_qty,
   total_extended |-> FixedDecimal(Summary.total_extended_price, 2),
   variance_flags |-> Cardinality(flags)]

\* lines 364-377: write summary.md, print the summary, exit 0
WriteSummaryMd ==
  /\ pc = "summary_md"
  /\ \E io_ok \in BOOLEAN :
       IF io_ok
       THEN /\ fs' = [fs EXCEPT !.summary_md = <<SummaryMd>>]
            /\ wrote' = wrote \cup {"summary.md"}
            /\ stdout' = <<Summary>>
            /\ exit_code' = 0
            /\ pc' = "exit"
            /\ UNCHANGED <<raised, stderr>>
       ELSE /\ Raise("OSError")
            /\ UNCHANGED <<fs, wrote>>
  /\ UNCHANGED <<env, DEFAULT_VENDOR_CFG, locals>>

(***************************************************************************)
(* Re-running: main() invoked again against the same <outdir>/<po>         *)
(***************************************************************************)
StandardHeader == <<"SKU", "Qty Ordered", "Cost (base)", "Total Cost (base)">>

RerunFiles ==
  { InputFile(StandardHeader,
              << InputRow(<<"B", "2">>, NumCell(2), 5000, 10000) >>),
    InputFile(StandardHeader,
              << InputRow(<<"A", "1">>, NumCell(1), 10000, 9980),
                 InputRow(<<"B", "2">>, NumCell(2), 5000, 10000) >>) }

RerunVendorFiles ==
  { <<>>,
    [output |-> [columns |-> <<"Item Id", "Qty Ordered", "Unit Price", "Extended Price">>,
                 delimiter |-> ",", decimal_places |-> 3, quoting |-> "all"]] }

RerunArgSets == [soft_validate : BOOLEAN, sku_pattern : {""}]

RerunPriceHistories == {h \in PriceHistories : ~h.arg}

\* the output CSV this run wrote, <<>> if it wrote none
WrittenCsv ==
  IF "output.csv" \in wrote
  THEN <<(CHOOSE f \in fs.output_csv : f.path = out_path).content>>
  ELSE <<>>

\* what is kept of a finished run
RunRecord ==
  [args |-> args, input |-> input, vendor_file |-> vendor_file, clock |-> clock,
   exit_code |-> exit_code, vendor |-> IF vcfg = <<>> THEN "" ELSE vcfg.name,
   out |-> out, out_path |-> out_path, csv |-> WrittenCsv]

InitRerun ==
  /\ args \in RerunArgSets
  /\ input \in RerunFiles
  /\ vendor_file \in RerunVendorFiles
  /\ price_history \in RerunPriceHistories
  /\ clock = 0
  /\ history = <<>>
  /\ fs = EmptyDir
  /\ ProcessStart

\* a new process, in the same minute or a later one; the run directory stays
Rerun ==
  /\ pc = "exit"
  /\ Len(history) + 1 < MaxRuns
  /\ history' = Append(history, RunRecord)
  /\ args' \in RerunArgSets
  /\ input' \in RerunFiles
  /\ vendor_file' \in RerunVendorFiles
  /\ price_history' \in RerunPriceHistories
  /\ clock' \in {clock, clock + 1}
  /\ pc' = "read"
  /\ DEFAULT_VENDOR_CFG' = BakedInDefaults
  /\ df_in' = <<>>
  /\ df_req' = <<>>
  /\ lineage_source' = <<>>
  /\ vcfg' = <<>>
  /\ sku_pattern' = None
  /\ validated' = <<>>
  /\ rows_quarantined' = 0
  /\ df_t' = <<>>
  /\ out' = <<>>
  /\ out_path' = NoPath
  /\ flags' = {}
  /\ wrote' = {}
  /\ raised' = [exc |-> "", at |-> ""]
  /\ exit_code' = -1
  /\ stderr' = ""
  /\ stdout' = <<>>
  /\ UNCHANGED fs

Next ==
  \/ ReadInput
  \/ MapToRequired
  \/ LoadVendorCfg
  \/ ValidateSchema
  \/ Quarantine
  \/ Transform
  \/ WriteOutput
  \/ VarianceFlags
  \/ WriteLineage
  \/ WriteSummaryJson
  \/ WriteSummaryMd

Spec == Init /\ [][Next]_vars

NextRerun == Next \/ Rerun

SpecRerun == InitRerun /\ [][NextRerun]_vars

(***************************************************************************)
(* One process that calls load_vendor_cfg several times                    *)
(* (stocky_to_coast.py:101-112).  main() is not stepped: pc and the locals *)
(* other than the returned cfg stay as the process started.                *)
(***************************************************************************)
\* most calls of load_vendor_cfg in the process
MaxLoads == 3

\* a call: vendor_arg says whether --vendor or --vendor-config is given,
\* opened whether open() found the file, data what yaml.safe_load(f) or {}
\* gives (<<>> for an empty document)
LoadCalls ==
  {[vendor_arg |-> FALSE, opened |-> FALSE, data |-> <<>>],
   [vendor_arg |-> TRUE, opened |-> FALSE, data |-> <<>>]}
    \cup {[vendor_arg |-> TRUE, opened |-> TRUE, data |-> d] : d \in VendorFiles}

InitLoads ==
  /\ args = [soft_validate |-> FALSE, sku_pattern |-> ""]
  /\ input = InputFile(StandardHeader, <<>>)
  /\ vendor_file = <<>>
  /\ price_history \in {h \in PriceHistories : ~h.arg}
  /\ clock = 0
  /\ history = <<>>
  /\ fs = EmptyDir
  /\ ProcessStart

\* one call of load_vendor_cfg: open() raises when the named file is
\* missing, before anything is merged; otherwise the data is merged into the
\* shallow copy and the merged cfg is returned.  history keeps the calls.
LoadVendorCfgCall ==
  /\ Len(history) < MaxLoads
  /\ \E call \in LoadCalls :
       /\ history' = Append(history, call)
       /\ vendor_file' = call.data
       /\ IF call.vendor_arg /\ ~call.opened
          THEN /\ raised' = [exc |-> "FileNotFoundError", at |-> "load_vendor_cfg"]
               /\ UNCHANGED <<DEFAULT_VENDOR_CFG, vcfg>>
          ELSE /\ raised' = [exc |-> "", at |-> ""]
               /\ DEFAULT_VENDOR_CFG' = DefaultsAfterLoad(DEFAULT_VENDOR_CFG, call.data)
               /\ vcfg' = load_vendor_cfg(DEFAULT_VENDOR_CFG, call.data)
  /\ UNCHANGED <<args, input, price_history, clock, pc, df_in, df_req, lineage_source,
                 sku_pattern, validated, rows_quarantined, df_t, out, out_path, flags,
                 fs, wrote, exit_code, stderr, stdout>>

NextLoads == LoadVendorCfgCall

SpecLoads == InitLoads /\ [][NextLoads]_vars

(***************************************************************************)
(* Properties                                                              *)
(***************************************************************************)
Finished == pc = "exit"

Fatal == Finished /\ exit_code \in {1, 2}

\* the input resolves and coerces, and one of its rows has
\* |Qty Ordered * Cost (base) - Total Cost (base)| > 0.01
HasMismatchRow(file) ==
  /\ MapException(file) = ""
  /\ \E i \in DOMAIN file.rows :
       LET r == map_to_required(file)[i]
       IN Abs(r.qty * r.cost - r.total) > Tolerance

\* the input resolves and coerces, and one of its rows has
\* |Qty Ordered * Cost (base) - Total Cost (base)| <= 0.01
HasMatchingRow(file) ==
  /\ MapException(file) = ""
  /\ \E i \in DOMAIN file.rows :
       LET r == map_to_required(file)[i]
       IN Abs(r.qty * r.cost - r.total) <= Tolerance

\* C1: a run of main() that ends in a fatal error (exit code 1 or 2) has
\* written no output CSV, whichever step failed.
C1_FatalLeavesNoOutput == Fatal => "output.csv" \notin wrote

IsPermutation(columns) ==
  /\ Len(columns) = 4
  /\ \A i \in 1..4 : \E j \in 1..4 : columns[j] = OUT_COLS[i]

\* the run was ended by a file of the environment: a write that failed, or
\* the price-history file
EnvironmentFailure == raised.exc = "OSError" \/ raised.at = "variance"

\* the run got as far as schema validation, so df_req and sku_pattern are set
ReachedValidation == Finished /\ raised.at \notin {"read", "map", "config"}

WithinTolerance(r) == Abs(r.qty * r.cost - r.total) <= Tolerance

\* the mapped input rows that break the cross-field rule, and those that keep it
MismatchRows == SelectSeq(df_req, LAMBDA r : ~WithinTolerance(r))

MatchRows == SelectSeq(df_req, WithinTolerance)

\* the rows that are validated and not quarantined
ValidRows == IF args.soft_validate THEN MatchRows ELSE df_req

QtyOf(rows) == SumSeq([i \in DOMAIN rows |-> rows[i].qty])

SkusOf(rows) == {rows[i].sku : i \in DOMAIN rows}

\* the position of the first column of a written CSV that is named col
CsvColumn(csv, col) ==
  CHOOSE j \in DOMAIN csv.header :
    csv.header[j] = col /\ \A k \in 1..(j - 1) : csv.header[k] # col

CsvItemIds(csv) ==
  {csv.lines[i][CsvColumn(csv, "Item Id")].text : i \in DOMAIN csv.lines}

CsvQty(csv) ==
  SumSeq([i \in DOMAIN csv.lines |-> csv.lines[i][CsvColumn(csv, "Qty Ordered")].whole])

C4_DedupePreservesQty ==
  /\ "output.csv" \in wrote
       => /\ CsvQty(WrittenCsv[1]) = QtyOf(ValidRows)
          /\ Len(WrittenCsv[1].lines) = Cardinality(SkusOf(ValidRows))
          /\ CsvItemIds(WrittenCsv[1]) = SkusOf(ValidRows)
  /\ "summary.json" \in wrote
       => fs.summary_json[1].total_qty = QtyOf(ValidRows)

\* C4 witness: a successful run whose valid rows share a SKU, so that
\* fewer rows are written than were valid
C4_Witness ==
  /\ Finished
  /\ exit_code = 0
  /\ Len(ValidRows) = 2
  /\ Len(WrittenCsv[1].lines) = 1
  /\ fs.summary_json[1].total_qty = QtyOf(ValidRows)
  /\ QtyOf(ValidRows) > 1

\* no alias of the canonical field equals a header column, letter case aside
NoAliasMatches(columns, canonical) ==
  \A a \in Range(STOCKY_ALIASES[canonical]) :
    \A j \in DOMAIN columns : Lower(a) # Lower(columns[j])

\* C5: a run fails with the missing-column validation error exactly when
\* one of the four canonical fields has no alias that matches a header
\* column case-insensitively.
C5_MissingColumnExactly ==
  Finished
    => ( (exit_code = 1 /\ raised.exc = "KeyError")
           <=> \E i \in 1..4 : NoAliasMatches(input.columns, IN_COLS[i]) )

\* the vendor config of this run is one validate_vendor_cfg raises on
ConfigRejected == ~validate_vendor_cfg(load_vendor_cfg(BakedInDefaults, vendor_file))

\* C6: a run with an invalid vendor config fails with the config error
\* whatever the input file contains: the config step comes before the
\* input is read, mapped and coerced.
C6_ConfigRejectedFirst ==
  (Finished /\ ConfigRejected) => raised = [exc |-> "ValueError", at |-> "config"]

\* C7: a vendor config that validate_vendor_cfg accepts has output.columns
\* that are a permutation of the four output fields, and a written output
\* CSV has exactly those four columns, each once.
C7_AcceptsOnlyPermutations ==
  /\ vcfg # <<>> => IsPermutation(vcfg.output.columns)
  /\ "output.csv" \in wrote => IsPermutation(WrittenCsv[1].header)

FixedNames == {"quarantine_csv", "lineage_json", "summary_json", "summary_md"}

\* C8: no file of the run directory has its content changed or replaced
\* once it is written.
C8_ArtifactsImmutable ==
  [][ /\ \A n \in FixedNames : fs[n] # <<>> => fs'[n] = fs[n]
      /\ \A f \in fs.output_csv : f \in fs'.output_csv ]_vars

\* C9: two successful runs on the same input and the same vendor config
\* write the same output CSV content under the same hash, whatever their
\* timestamps; the hash is the same whenever the vendor name and the output
\* rows in vendor column order are.
C9_Idempotent ==
  \A i \in DOMAIN history :
    (Finished /\ exit_code = 0 /\ history[i].exit_code = 0)
      => /\ (history[i].input = input /\ history[i].vendor_file = vendor_file)
              => /\ history[i].csv = WrittenCsv
                 /\ history[i].out_path.hash = out_path.hash
         /\ (history[i].vendor = vcfg.name /\ history[i].out = out)
              => history[i].out_path.hash = out_path.hash

\* C9 witness: the same input and vendor config run successfully in two
\* different minutes: two files, one hash
C9_Witness ==
  /\ Finished
  /\ exit_code = 0
  /\ \E i \in DOMAIN history :
       /\ history[i].exit_code = 0
       /\ history[i].input = input
       /\ history[i].vendor_file = vendor_file
       /\ history[i].out_path.ts # out_path.ts
       /\ history[i].out_path.hash = out_path.hash
       /\ Len(out.rows) > 0
       /\ \E f, g \in fs.output_csv :
            f.path = history[i].out_path /\ g.path = out_path /\ f.content = g.content

\* C10: on a successful run lineage.json has one entry per SKU of the
\* output, and the row_ids of its entries partition the input row indices
\* that were validated and not quarantined, each index under its row's SKU.
C10_LineagePartitionsValidRows ==
  (Finished /\ exit_code = 0)
    => LET lin == fs.lineage_json[1]
           valid == {ValidRows[i].idx : i \in DOMAIN ValidRows}
           places == {kp \in (DOMAIN lin) \X (0..Len(df_req)) :
                        kp[2] \in DOMAIN lin[kp[1]].row_ids}
       IN /\ {lin[k].sku : k \in DOMAIN lin} = CsvItemIds(WrittenCsv[1])
          /\ Len(lin) = Len(WrittenCsv[1].lines)
          /\ \A kp \in places : lin[kp[1]].row_ids[kp[2]] \in valid
          /\ \A v \in valid :
               /\ Cardinality({kp \in places : lin[kp[1]].row_ids[kp[2]] = v}) = 1
               /\ \A kp \in places :
                    lin[kp[1]].row_ids[kp[2]] = v => lin[kp[1]].sku = df_req[v + 1].sku

\* C10 witness: a successful soft run in which a quarantined row and a
\* valid row share a SKU, whose lineage entry names the valid row only
C10_Witness ==
  /\ Finished
  /\ exit_code = 0
  /\ Len(df_req) = 2
  /\ Len(MismatchRows) = 1
  /\ Len(MatchRows) = 1
  /\ MismatchRows[1].sku = MatchRows[1].sku
  /\ fs.lineage_json = << << [sku |-> MatchRows[1].sku,
                              row_ids |-> <<MatchRows[1].idx>>] >> >>

\* the latest call of load_vendor_cfg had neither a vendor name nor a
\* config path
LastCallPlain == history # <<>> /\ ~history[Len(history)].vendor_arg

\* C11: load_vendor_cfg leaves the baked-in DEFAULT_VENDOR_CFG unchanged:
\* after any sequence of calls in one process, the module global still holds
\* the original defaults, and a call with neither a vendor name nor a config
\* path returns them (name 'default', the default column order, delimiter
\* ',', decimal_places 2, quoting 'all', empty input section).
C11_DefaultsUnchanged ==
  /\ DEFAULT_VENDOR_CFG = BakedInDefaults
  /\ LastCallPlain => vcfg = BakedInDefaults

====
